---- MODULE Spec2Model ----
(***************************************************************************)
(* blender-export.py: merge a Mixamo character with swimming animations    *)
(* and export one GLB.  The script is a linear procedure over the host's   *)
(* process-wide data (bpy.data); the model keeps that data as one record   *)
(* and gives one action per step of main().                                *)
(*                                                                         *)
(* Host behaviour the script relies on, as the host (Blender) defines it:  *)
(*  - a data block carries a user count; a fake user counts as one user;   *)
(*  - data-block names are unique per collection ("X", "X.001", ...);      *)
(*  - select_all(SELECT) selects the selectable objects only, and          *)
(*    object.delete removes the selected ones;                             *)
(*  - the FBX importer deselects everything, then creates its objects      *)
(*    selected, each with new data blocks (mesh, material, armature,       *)
(*    action); whether it keeps the actions it creates alive by a fake     *)
(*    user is left open (fake_user);                                       *)
(*  - removing an object removes the object alone: its data blocks stay,   *)
(*    with one user less;                                                  *)
(*  - iterating a bpy collection fetches the next link before the loop     *)
(*    body runs on the current item, so removing the current item does     *)
(*    not disturb the iteration;                                           *)
(*  - bpy.context.selected_objects is a plain list (a snapshot).           *)
(***************************************************************************)
EXTENDS Integers, Sequences, FiniteSets, TLC

\* ---------------------------------------------------------------- bounds
MaxRuns == 2        \* runs of main() in one host session
MaxMeshes == 1      \* meshes in the character file
MaxMods == 3        \* longest modifier stack of an imported mesh
MaxPrior == 2       \* prior blocks per collection, and prior objects

\* ------------------------------------------------------------- constants
OUTPUT_FILE == "swimmer.glb"

ANIMATIONS ==
    << <<"swim_freestyle", "Swimming">>,
       <<"swim_breaststroke", "Breaststroke">>,
       <<"swim_backstroke", "Backstroke">>,
       <<"swim_butterfly", "Butterfly">>,
       <<"swim_dive", "Diving">>,
       <<"swim_turn_flip", "FlipTurn">>,
       <<"swim_turn_open", "OpenTurn">> >>

PolygonThreshold == 10000
DecimateRatio == 50         \* ratio 0.5, in percent

None == 0

\* --------------------------------------------------------------- helpers
\* Smallest positive integer that is not a key of the collection.
NewId(coll) ==
    CHOOSE n \in 1..(Cardinality(DOMAIN coll) + 1) :
        n \notin DOMAIN coll /\ \A m \in 1..(n - 1) : m \in DOMAIN coll

Put(coll, id, rec) ==
    [i \in DOMAIN coll \cup {id} |-> IF i = id THEN rec ELSE coll[i]]

Drop(coll, id) == [i \in DOMAIN coll \ {id} |-> coll[i]]

NamesOf(coll) == {coll[i].name : i \in DOMAIN coll}

\* The host's unique naming: <<base, 0>> is "base", <<base, k>> is "base.00k".
UniqueName(base, used) ==
    LET k == CHOOSE n \in 0..Cardinality(used) :
                 <<base, n>> \notin used /\ \A m \in 0..(n - 1) : <<base, m>> \in used
    IN <<base, k>>

\* The links of a host collection, in the collection's order.
RECURSIVE Links(_)
Links(S) ==
    IF S = {} THEN <<>>
    ELSE LET x == CHOOSE y \in S : \A z \in S : y <= z
         IN <<x>> \o Links(S \ {x})

IndexOf(s, x) ==
    IF \E j \in 1..Len(s) : s[j] = x THEN CHOOSE j \in 1..Len(s) : s[j] = x ELSE 0

IterFirst(s) == IF Len(s) = 0 THEN 0 ELSE 1

\* A list iterator that re-reads the collection by position after the body:
\* removing the current item makes it skip the item that follows.
IterNextByIndex(before, after, i) == IF i + 1 <= Len(after) THEN i + 1 ELSE 0

\* "for x in <bpy collection>": the iterator already holds the link after the
\* current item while the body runs; position 0 ends the loop.
IterNext(before, after, i) ==
    IF i >= Len(before) THEN 0 ELSE IndexOf(after, before[i + 1])

\* ------------------------------------------------------------- host data
\* d = [objects, meshes, armatures, actions, materials], each a function
\* id -> record.
DataKind(type) == IF type = "MESH" THEN "meshes" ELSE "armatures"

\* Change the user count of a block (None: nothing to do).
id_us(d, kind, id, n) ==
    IF id = None THEN d ELSE [d EXCEPT ![kind][id].users = @ + n]

RECURSIVE release_strips(_, _)
release_strips(d, strips) ==
    IF strips = <<>> THEN d
    ELSE release_strips(id_us(d, "actions", Head(strips).action, -1), Tail(strips))

RECURSIVE release_tracks(_, _)
release_tracks(d, tracks) ==
    IF tracks = <<>> THEN d
    ELSE release_tracks(release_strips(d, Head(tracks).strips), Tail(tracks))

\* bpy.data.objects.remove(obj, do_unlink=True): the object goes, with its
\* animation data; what it used loses a user; its children lose their parent.
objects_remove(d, o) ==
    LET ob == d.objects[o]
        d1 == IF ob.data = None THEN d ELSE id_us(d, DataKind(ob.type), ob.data, -1)
        d2 == id_us(d1, "actions", ob.action, -1)
        d3 == release_tracks(d2, ob.tracks)
        rest == Drop(d3.objects, o)
    IN [d3 EXCEPT !.objects =
           [i \in DOMAIN rest |->
               IF rest[i].parent = o THEN [rest[i] EXCEPT !.parent = None] ELSE rest[i]]]

RECURSIVE remove_all(_, _)
remove_all(d, S) ==
    IF S = {} THEN d
    ELSE LET o == CHOOSE x \in S : \A y \in S : x <= y
         IN remove_all(objects_remove(d, o), S \ {o})

selected_objects(d) == {o \in DOMAIN d.objects : d.objects[o].selected}

\* bpy.ops.object.select_all(action='SELECT')
select_all(d) ==
    [d EXCEPT !.objects =
        [o \in DOMAIN d.objects |->
            [d.objects[o] EXCEPT !.selected = @ \/ d.objects[o].selectable]]]

\* The importer's first step: bpy.ops.object.select_all(action='DESELECT').
deselect_all(d) ==
    [d EXCEPT !.objects =
        [o \in DOMAIN d.objects |-> [d.objects[o] EXCEPT !.selected = FALSE]]]

\* bpy.ops.object.delete(use_global=False)
object_delete(d) == remove_all(d, selected_objects(d))

\* bpy.data.<kind>.remove(block): a mesh or armature block releases the action
\* of its own animation data, and a mesh its material.
blocks_remove(d, kind, id) ==
    LET act == IF kind = "actions" THEN None ELSE d[kind][id].action
        mat == IF kind = "meshes" THEN d[kind][id].material ELSE None
        d1 == [d EXCEPT ![kind] = Drop(@, id)]
    IN id_us(id_us(d1, "actions", act, -1), "materials", mat, -1)

\* for block in bpy.data.<kind>: if block.users == 0: bpy.data.<kind>.remove(block)
RECURSIVE orphan_loop(_, _, _)
orphan_loop(d, kind, i) ==
    IF i = 0 THEN d
    ELSE LET before == Links(DOMAIN d[kind])
             block == before[i]
             d1 == IF d[kind][block].users = 0 THEN blocks_remove(d, kind, block) ELSE d
         IN orphan_loop(d1, kind, IterNext(before, Links(DOMAIN d1[kind]), i))

remove_unused(d, kind) == orphan_loop(d, kind, IterFirst(Links(DOMAIN d[kind])))

clear_scene(d) ==
    LET d1 == object_delete(select_all(d))
        d2 == remove_unused(d1, "meshes")
        d3 == remove_unused(d2, "armatures")
    IN remove_unused(d3, "actions")

\* ---------------------------------------------------------------- import
\* A file on disk: [present, armature, action, meshes]; a mesh of a file is
\* [parented, polygons, modifiers], modifiers a sequence of modifier types.
\* The importer makes every data block anew: object, mesh, material, armature
\* and action, each under the next free name.
RECURSIVE name_modifiers(_, _)
name_modifiers(types, acc) ==
    IF types = <<>> THEN acc
    ELSE name_modifiers(Tail(types),
            Append(acc, [name |-> UniqueName(Head(types), {acc[j].name : j \in DOMAIN acc}),
                         type |-> Head(types),
                         ratio |-> 100]))

new_object(name, type, parent, data, action) ==
    [name |-> name, type |-> type, parent |-> parent, data |-> data,
     selected |-> TRUE, selectable |-> TRUE,
     anim |-> action # None, action |-> action, tracks |-> <<>>, modifiers |-> <<>>]

\* The armature of a file, with the action bound to it when the file has one.
add_armature(d, has_action, fake_user) ==
    LET block == NewId(d.armatures)
        act == IF has_action THEN NewId(d.actions) ELSE None
        o == NewId(d.objects)
        d1 == [d EXCEPT !.armatures =
                  Put(@, block, [name |-> UniqueName("Armature", NamesOf(@)),
                                 users |-> 1, action |-> None])]
        d2 == IF has_action
              THEN [d1 EXCEPT !.actions =
                       Put(@, act, [name |-> UniqueName("Armature|mixamo.com", NamesOf(@)),
                                    users |-> IF fake_user THEN 2 ELSE 1])]
              ELSE d1
    IN [d2 EXCEPT !.objects =
           Put(@, o, new_object(UniqueName("Armature", NamesOf(@)), "ARMATURE",
                                None, block, act))]

RECURSIVE add_meshes(_, _, _)
add_meshes(d, meshes, arm) ==
    IF meshes = <<>> THEN d
    ELSE LET m == Head(meshes)
             block == NewId(d.meshes)
             mat == NewId(d.materials)
             o == NewId(d.objects)
             d1 == [d EXCEPT !.materials =
                       Put(@, mat, [name |-> UniqueName("Material", NamesOf(@)), users |-> 1]),
                             !.meshes =
                       Put(@, block, [name |-> UniqueName("Mesh", NamesOf(@)), users |-> 1,
                                      polygons |-> m.polygons, action |-> None,
                                      material |-> mat])]
             ob == [new_object(UniqueName("Mesh", NamesOf(d.objects)), "MESH",
                               IF m.parented THEN arm ELSE None, block, None)
                       EXCEPT !.modifiers = name_modifiers(m.modifiers, <<>>)]
         IN add_meshes([d1 EXCEPT !.objects = Put(@, o, ob)], Tail(meshes), arm)

\* bpy.ops.import_scene.fbx(filepath=...)
import_scene_fbx(d, file, fake_user) ==
    LET d0 == deselect_all(d)
        arm == IF file.armature THEN NewId(d0.objects) ELSE None
        d1 == IF file.armature THEN add_armature(d0, file.action, fake_user) ELSE d0
    IN add_meshes(d1, file.meshes, arm)

\* The first object of type ARMATURE among the selected objects, or None.
first_armature(d) ==
    LET arms == {o \in selected_objects(d) : d.objects[o].type = "ARMATURE"}
    IN IF arms = {} THEN None ELSE CHOOSE o \in arms : \A p \in arms : o <= p

import_fbx(d, file, fake_user) ==
    LET d1 == import_scene_fbx(d, file, fake_user)
    IN [data |-> d1, armature |-> first_armature(d1)]

\* ------------------------------------------------------ extract_animation
\* Variants of new_track: the track left playing, the clip placed at frame 1.
new_track_unmuted(action_name, action) ==
    [name |-> action_name, mute |-> FALSE,
     strips |-> << [name |-> action_name, start |-> 0, action |-> action] >>]

new_track_from_frame_1(action_name, action) ==
    [name |-> action_name, mute |-> TRUE,
     strips |-> << [name |-> action_name, start |-> 1, action |-> action] >>]

\* track = nla_tracks.new(); track.name = ...; track.strips.new(name, 0, action);
\* track.mute = True
new_track(action_name, action) ==
    [name |-> action_name, mute |-> TRUE,
     strips |-> << [name |-> action_name, start |-> 0, action |-> action] >>]

\* action = imported.animation_data.action.copy(); action.name = action_name;
\* then the new track on the target, whose strip is the copy's only user.
add_animation(d, imported_armature, action_name, target_armature) ==
    LET copy == NewId(d.actions)
        d1 == [d EXCEPT !.actions =
                  Put(@, copy, [name |-> UniqueName(action_name, NamesOf(@)), users |-> 1])]
    IN [d1 EXCEPT !.objects[target_armature].anim = TRUE,
                  !.objects[target_armature].tracks =
                      Append(@, new_track(action_name, copy))]

has_action(ob) == ob.anim /\ ob.action # None

extract_animation(d, fbx, stem, action_name, target_armature, fake_user) ==
    LET d1 == import_scene_fbx(d, fbx, fake_user)
        imported_armature == first_armature(d1)
    IN IF imported_armature = None
       THEN [data |-> d1,
             out |-> << <<"Warning: No armature found in", stem>> >>,
             original |-> {}]
       ELSE LET found == has_action(d1.objects[imported_armature])
                d2 == IF found
                      THEN add_animation(d1, imported_armature, action_name, target_armature)
                      ELSE d1
            IN [data |-> remove_all(d2, selected_objects(d2)),
                out |-> IF found THEN << <<"Added animation:", action_name>> >> ELSE <<>>,
                original |-> IF found THEN {d1.objects[imported_armature].action} ELSE {}]

\* --------------------------------------------------------- optimize_model
\* What the host's engine does to the polygon count when a modifier is applied.
modifier_effect(m, polygons) ==
    CASE m.type = "SUBSURF" -> polygons * 4
      [] m.type = "DECIMATE" -> (polygons * m.ratio) \div 100
      [] OTHER -> polygons

RemoveAt(s, i) == SubSeq(s, 1, i - 1) \o SubSeq(s, i + 1, Len(s))

\* bpy.ops.object.modifier_apply(modifier=name) on the active object
modifier_apply(d, mesh, name) ==
    LET stack == d.objects[mesh].modifiers
        i == CHOOSE j \in 1..Len(stack) : stack[j].name = name
        block == d.objects[mesh].data
    IN [d EXCEPT !.meshes[block].polygons = modifier_effect(stack[i], @),
                 !.objects[mesh].modifiers = RemoveAt(stack, i)]

\* bpy.ops.object.modifier_add(type='DECIMATE'); mesh.modifiers["Decimate"].ratio = 0.5
modifier_add_decimate(d, mesh) ==
    LET stack == d.objects[mesh].modifiers
        added == Append(stack,
                    [name |-> UniqueName("Decimate", {stack[j].name : j \in DOMAIN stack}),
                     type |-> "DECIMATE", ratio |-> 100])
    IN [d EXCEPT !.objects[mesh].modifiers =
           [j \in DOMAIN added |->
               IF added[j].name = <<"Decimate", 0>>
               THEN [added[j] EXCEPT !.ratio = DecimateRatio] ELSE added[j]]]

\* for modifier in mesh.modifiers: if modifier.type != 'ARMATURE': modifier_apply(...)
RECURSIVE modifier_loop(_, _, _)
modifier_loop(d, mesh, i) ==
    IF i = 0 THEN d
    ELSE LET before == d.objects[mesh].modifiers
             modifier == before[i]
             d1 == IF modifier.type # "ARMATURE"
                   THEN modifier_apply(d, mesh, modifier.name) ELSE d
         IN modifier_loop(d1, mesh, IterNext(before, d1.objects[mesh].modifiers, i))

\* Variant of needs_decimate: the threshold itself included.
needs_decimate_inclusive(polygons) == polygons >= PolygonThreshold

\* if len(mesh.data.polygons) > 10000
needs_decimate(polygons) == polygons > PolygonThreshold

\* One record per mesh of the loop: what it was before, and whether the
\* DECIMATE modifier was added and applied.
RECURSIVE optimize_meshes(_, _, _)
optimize_meshes(d, meshes, trace) ==
    IF meshes = <<>> THEN [data |-> d, trace |-> trace]
    ELSE LET mesh == Head(meshes)
             d1 == modifier_loop(d, mesh, IterFirst(d.objects[mesh].modifiers))
             reduce == needs_decimate(d1.meshes[d1.objects[mesh].data].polygons)
             d2 == IF reduce
                   THEN modifier_apply(modifier_add_decimate(d1, mesh), mesh, <<"Decimate", 0>>)
                   ELSE d1
             d3 == [d2 EXCEPT !.objects[mesh].selected = FALSE]
         IN optimize_meshes(d3, Tail(meshes),
                Append(trace, [mesh |-> mesh,
                               polygons |-> d.meshes[d.objects[mesh].data].polygons,
                               stack |-> d.objects[mesh].modifiers,
                               decimated |-> reduce]))

optimize_model(d, armature_) ==
    LET meshes == Links({o \in DOMAIN d.objects :
                            d.objects[o].parent = armature_ /\ d.objects[o].type = "MESH"})
    IN optimize_meshes(d, meshes, <<>>)

\* ------------------------------------------------------------- export_glb
\* What the exporter is handed: the scene by names (ids are host addresses).
object_name(d, o) == IF o = None THEN None ELSE d.objects[o].name

material_name(d, ob) ==
    IF ob.type = "MESH" /\ ob.data # None /\ d.meshes[ob.data].material # None
    THEN d.materials[d.meshes[ob.data].material].name ELSE None

strip_view(d, strips) ==
    [j \in DOMAIN strips |->
        [name |-> strips[j].name, start |-> strips[j].start,
         action |-> d.actions[strips[j].action].name]]

track_view(d, tracks) ==
    [j \in DOMAIN tracks |->
        [name |-> tracks[j].name, mute |-> tracks[j].mute,
         strips |-> strip_view(d, tracks[j].strips)]]

export_glb(d) ==
    [objects |-> {[name |-> d.objects[o].name, type |-> d.objects[o].type,
                   parent |-> object_name(d, d.objects[o].parent),
                   tracks |-> track_view(d, d.objects[o].tracks),
                   material |-> material_name(d, d.objects[o]),
                   modifiers |-> d.objects[o].modifiers] : o \in DOMAIN d.objects},
     actions |-> NamesOf(d.actions)]

\* ------------------------------------------------------------------ state
VARIABLES
    data,        \* bpy.data: objects, meshes, armatures, actions
    files,       \* the script's directory: character.fbx and the animation files
    fake_user,   \* whether the host's importer gives its actions a fake user
    pc,          \* where main() stands
    index,       \* the entry of ANIMATIONS the loop of main() is at
    armature,    \* main()'s armature, the target (None before the import)
    log,         \* what was printed
    exported,    \* what export_glb was handed, one entry per call
    runs,        \* runs of main() started in this host session
    optimized,   \* this run's optimize_model, one record per mesh it handled
    originals,   \* this run's imported actions that extract_animation copied
    before       \* the objects of the scene before this run's last extract_animation

vars == <<data, files, fake_user, pc, index, armature, log, exported, runs,
          optimized, originals, before>>

\* ----------------------------------------------------------------- inputs
ModifierTypes == {"ARMATURE", "SUBSURF"}

PolygonCounts == {2500, 10000, 10001}

RECURSIVE SeqsUpTo(_, _)
SeqsUpTo(S, n) ==
    IF n = 0 THEN {<<>>}
    ELSE LET shorter == SeqsUpTo(S, n - 1)
         IN shorter \cup {Append(q, x) : q \in {r \in shorter : Len(r) = n - 1}, x \in S}

AbsentFile == [present |-> FALSE, armature |-> FALSE, action |-> FALSE, meshes |-> <<>>]

SkinnedMesh == [parented |-> TRUE, polygons |-> 2500, modifiers |-> <<"ARMATURE">>]

LooseMesh == [parented |-> FALSE, polygons |-> 2500, modifiers |-> <<>>]

\* An animation file: a skeleton with a bound action and its skinned mesh, a
\* skeleton without an action, a file without a skeleton, or no file.
AnimationFile(kind) ==
    CASE kind = "action" ->
           [present |-> TRUE, armature |-> TRUE, action |-> TRUE, meshes |-> <<SkinnedMesh>>]
      [] kind = "noaction" ->
           [present |-> TRUE, armature |-> TRUE, action |-> FALSE, meshes |-> <<SkinnedMesh>>]
      [] kind = "noarmature" ->
           [present |-> TRUE, armature |-> FALSE, action |-> FALSE, meshes |-> <<LooseMesh>>]
      [] OTHER -> AbsentFile

AnimationKinds == {"absent", "action", "noaction", "noarmature"}

KindOf(file) ==
    CASE ~file.present -> "absent"
      [] ~file.armature -> "noarmature"
      [] ~file.action -> "noaction"
      [] OTHER -> "action"

CharacterFile(meshes) ==
    [present |-> TRUE, armature |-> TRUE, action |-> FALSE, meshes |-> meshes]

NoSkeletonCharacter ==
    [present |-> TRUE, armature |-> FALSE, action |-> FALSE, meshes |-> <<LooseMesh>>]

MeshConfigs ==
    [parented : BOOLEAN, polygons : PolygonCounts, modifiers : SeqsUpTo(ModifierTypes, MaxMods)]

\* A host session before the script: nothing loaded, or the startup scene's
\* cube, or a scene with an object that cannot be selected.
EmptyData ==
    [objects |-> <<>>, meshes |-> <<>>, armatures |-> <<>>, actions |-> <<>>,
     materials |-> <<>>]

PriorObject(type, block, selectable) ==
    [new_object(<<"Cube", 0>>, type, None, block, None)
        EXCEPT !.selected = FALSE, !.selectable = selectable]

StartupData ==
    [EmptyData EXCEPT
        !.objects = <<PriorObject("MESH", 1, TRUE)>>,
        !.meshes = << [name |-> <<"Cube", 0>>, users |-> 1, polygons |-> 6,
                       action |-> None, material |-> None] >>]

\* ---------------------------------------------------------------- actions
exists(file) == file.present

\* Variant of no_armature: the result of import_fbx is not looked at.
no_armature_ignored(a) == FALSE

\* if not armature
no_armature(a) == a = None

\* clear_scene()
MainClearScene ==
    /\ pc = "clear"
    /\ data' = clear_scene(data)
    /\ pc' = "import"
    /\ armature' = None
    /\ index' = 0
    /\ optimized' = <<>>
    /\ originals' = {}
    /\ before' = {}
    /\ UNCHANGED <<files, fake_user, log, exported, runs>>

\* character.fbx is not there: sys.exit(1)
MainCharacterMissing ==
    /\ pc = "import"
    /\ ~exists(files.character)
    /\ log' = log \o << <<"Error: Character file not found", "character">>,
                        <<"Please download a character from Mixamo as", "character">> >>
    /\ pc' = "exit1"
    /\ UNCHANGED <<data, files, fake_user, index, armature, exported, runs,
                   optimized, originals, before>>

\* import_fbx(character_path) finds no armature: sys.exit(1)
MainNoArmature ==
    /\ pc = "import"
    /\ exists(files.character)
    /\ LET r == import_fbx(data, files.character, fake_user)
       IN /\ no_armature(r.armature)
          /\ data' = r.data
    /\ log' = log \o << <<"Importing character:", "character">>,
                        <<"Error: No armature found in character file", "character">> >>
    /\ pc' = "exit1"
    /\ UNCHANGED <<files, fake_user, index, armature, exported, runs,
                   optimized, originals, before>>

\* armature = import_fbx(character_path); armature.name = "Swimmer"
MainImportCharacter ==
    /\ pc = "import"
    /\ exists(files.character)
    /\ LET r == import_fbx(data, files.character, fake_user)
       IN /\ ~no_armature(r.armature)
          /\ armature' = r.armature
          /\ data' = [r.data EXCEPT !.objects[r.armature].name =
                          UniqueName("Swimmer", NamesOf(Drop(r.data.objects, r.armature)))]
    /\ log' = Append(log, <<"Importing character:", "character">>)
    /\ pc' = "animations"
    /\ index' = 1
    /\ UNCHANGED <<files, fake_user, exported, runs, optimized, originals, before>>

\* One entry of ANIMATIONS whose file exists: extract_animation(...)
MainExtractAnimation ==
    /\ pc = "animations"
    /\ index <= Len(ANIMATIONS)
    /\ exists(files.animations[index])
    /\ LET r == extract_animation(data, files.animations[index], ANIMATIONS[index][1],
                                  ANIMATIONS[index][2], armature, fake_user)
       IN /\ data' = r.data
          /\ log' = Append(log, <<"Importing animation:", ANIMATIONS[index][1]>>) \o r.out
          /\ originals' = originals \cup r.original
    /\ before' = DOMAIN data.objects
    /\ index' = index + 1
    /\ UNCHANGED <<files, fake_user, pc, armature, exported, runs, optimized>>

\* One entry of ANIMATIONS whose file does not exist
MainSkipAnimation ==
    /\ pc = "animations"
    /\ index <= Len(ANIMATIONS)
    /\ ~exists(files.animations[index])
    /\ log' = Append(log, <<"Skipping (not found):", ANIMATIONS[index][1]>>)
    /\ index' = index + 1
    /\ UNCHANGED <<data, files, fake_user, pc, armature, exported, runs,
                   optimized, originals, before>>

\* optimize_model(armature)
MainOptimize ==
    /\ pc = "animations"
    /\ index > Len(ANIMATIONS)
    /\ LET r == optimize_model(data, armature)
       IN /\ data' = r.data
          /\ optimized' = r.trace
    /\ log' = Append(log, <<"Optimizing model...", "">>)
    /\ pc' = "export"
    /\ UNCHANGED <<files, fake_user, index, armature, exported, runs, originals, before>>

\* export_glb(output_path)
MainExport ==
    /\ pc = "export"
    /\ exported' = Append(exported, export_glb(data))
    /\ log' = log \o << <<"Exporting to:", OUTPUT_FILE>>, <<"Exported:", OUTPUT_FILE>> >>
    /\ pc' = "report"
    /\ UNCHANGED <<data, files, fake_user, index, armature, runs, optimized,
                   originals, before>>

\* print("Done!")
MainReport ==
    /\ pc = "report"
    /\ log' = Append(log, <<"Done!", "">>)
    /\ pc' = "done"
    /\ UNCHANGED <<data, files, fake_user, index, armature, exported, runs,
                   optimized, originals, before>>

\* The script is run again in the same host session, on the same files.
Rerun ==
    /\ pc = "done"
    /\ runs < MaxRuns
    /\ runs' = runs + 1
    /\ pc' = "clear"
    /\ UNCHANGED <<data, files, fake_user, index, armature, log, exported,
                   optimized, originals, before>>

Main ==
    \/ MainClearScene
    \/ MainCharacterMissing
    \/ MainNoArmature
    \/ MainImportCharacter
    \/ MainExtractAnimation
    \/ MainSkipAnimation
    \/ MainOptimize
    \/ MainExport
    \/ MainReport

Next == Main

NextSession == Main \/ Rerun

\* --------------------------------------------------------- specifications
Start ==
    /\ pc = "clear"
    /\ index = 0
    /\ armature = None
    /\ log = <<>>
    /\ exported = <<>>
    /\ runs = 1
    /\ optimized = <<>>
    /\ originals = {}
    /\ before = {}

\* One run from the startup scene: every combination of the seven animation
\* files, with a missing, a skeleton-less or a plain character.
Init ==
    /\ Start
    /\ fake_user \in BOOLEAN
    /\ data = StartupData
    /\ \/ files \in [character : {CharacterFile(<<SkinnedMesh>>)},
                     animations : [1..Len(ANIMATIONS) ->
                                      {AnimationFile(k) : k \in AnimationKinds}]]
       \/ files \in [character : {AbsentFile, NoSkeletonCharacter},
                     animations : {[i \in 1..Len(ANIMATIONS) |-> AnimationFile(k)]
                                      : k \in AnimationKinds}]

Spec == Init /\ [][Next]_vars

\* The first animation file as given, the second present, the others absent.
FewAnimations(first, second) ==
    [i \in 1..Len(ANIMATIONS) |->
        IF i = 1 THEN AnimationFile(first)
        ELSE IF i = 2 THEN AnimationFile(second) ELSE AbsentFile]

\* One run over characters whose meshes vary in parent, polygon count and
\* modifier stack.
InitOptimize ==
    /\ Start
    /\ fake_user = TRUE
    /\ data = StartupData
    /\ files \in [character : {AbsentFile, NoSkeletonCharacter}
                                \cup {CharacterFile(ms) : ms \in SeqsUpTo(MeshConfigs, MaxMeshes)},
                  animations : {FewAnimations("action", "absent")}]

SpecOptimize == InitOptimize /\ [][Next]_vars

\* Prior host data: up to MaxPrior actions, meshes and armatures, each with or
\* without a fake user; a mesh may have the last action in its own animation
\* data; a block may be the data of one object, selectable or not.
PriorActionSets == UNION {[1..n -> [fake : BOOLEAN]] : n \in 0..MaxPrior}

PriorMeshSets(nA) ==
    UNION {[1..n -> [fake : BOOLEAN,
                     action : IF nA = 0 THEN {None} ELSE {None, nA},
                     object : {"none", "selectable", "hidden"}]] : n \in 0..MaxPrior}

PriorArmatureSets ==
    UNION {[1..n -> [fake : BOOLEAN, object : {"none", "selectable"}]] : n \in 0..MaxPrior}

Count(S) == Cardinality(S)

PriorObjects(M, R) ==
    LET ms == Links({i \in DOMAIN M : M[i].object # "none"})
        rs == Links({i \in DOMAIN R : R[i].object # "none"})
    IN [j \in 1..(Len(ms) + Len(rs)) |->
           IF j <= Len(ms)
           THEN [PriorObject("MESH", ms[j], M[ms[j]].object = "selectable")
                    EXCEPT !.name = <<"Cube", j>>]
           ELSE [PriorObject("ARMATURE", rs[j - Len(ms)],
                             R[rs[j - Len(ms)]].object = "selectable")
                    EXCEPT !.name = <<"Cube", j>>]]

Users(flag) == IF flag THEN 1 ELSE 0

PriorHost(A, M, R) ==
    [objects |-> PriorObjects(M, R),
     meshes |-> [i \in DOMAIN M |->
                    [name |-> <<"Cube", i>>,
                     users |-> Users(M[i].fake) + Users(M[i].object # "none"),
                     polygons |-> 6, action |-> M[i].action, material |-> None]],
     armatures |-> [i \in DOMAIN R |->
                    [name |-> <<"Armature", i>>,
                     users |-> Users(R[i].fake) + Users(R[i].object # "none"),
                     action |-> None]],
     actions |-> [i \in DOMAIN A |->
                    [name |-> <<"Action", i>>,
                     users |-> Users(A[i].fake)
                               + Count({m \in DOMAIN M : M[m].action = i})]],
     materials |-> <<>>]

PriorData ==
    UNION {{PriorHost(A, M, R) : M \in PriorMeshSets(Len(A)), R \in PriorArmatureSets}
               : A \in PriorActionSets}

\* One run from any prior host data.
InitPrior ==
    /\ Start
    /\ fake_user = TRUE
    /\ \/ /\ data \in PriorData
          /\ files = [character |-> CharacterFile(<<SkinnedMesh>>),
                      animations |-> FewAnimations("action", "absent")]
       \/ /\ data = StartupData
          /\ files \in [character : {AbsentFile, NoSkeletonCharacter},
                        animations : {FewAnimations("action", "absent")}]

SpecPrior == InitPrior /\ [][Next]_vars

\* A host session in which the script is run up to MaxRuns times.
InitSession ==
    /\ Start
    /\ fake_user \in BOOLEAN
    /\ data = StartupData
    /\ files \in [character : {AbsentFile, NoSkeletonCharacter, CharacterFile(<<SkinnedMesh>>)},
                  animations : {FewAnimations(k, "absent") : k \in AnimationKinds}]

SpecSession == InitSession /\ [][NextSession]_vars

\* ----------------------------------------------------------------- claims
\* The track names the specification fixes for the seven animation files.
TrackNames ==
    <<"Swimming", "Breaststroke", "Backstroke", "Butterfly", "Diving", "FlipTurn", "OpenTurn">>

HasSkeleton(file) == file.present /\ file.armature

TargetTracks == IF armature \in DOMAIN data.objects THEN data.objects[armature].tracks ELSE <<>>

Printed(text) == \E j \in DOMAIN log : log[j][1] = text

\* C1: with character.fbx absent, or present without a skeletal object, main()
\* goes from the import straight to exit status 1: no animation entry is
\* processed, optimize_model and export_glb are not called, nothing is exported.
C1_FatalWithoutCharacter ==
    ~HasSkeleton(files.character) =>
        /\ pc \in {"clear", "import", "exit1"}
        /\ index = 0
        /\ optimized = <<>>
        /\ exported = <<>>
        /\ TargetTracks = <<>>
        /\ ~Printed("Importing animation:")
        /\ ~Printed("Optimizing model...")
        /\ ~Printed("Exported:")

C1_Witness ==
    /\ pc = "exit1"
    /\ files.character.present
    /\ ~files.character.armature
    /\ \A i \in DOMAIN files.animations : KindOf(files.animations[i]) = "action"
    /\ Printed("Error: No armature found in character file")

\* The names, in the mapping's order, of the animation files 1..i that hold a
\* skeleton with a bound action.
RECURSIVE NamesOfAnimated(_)
NamesOfAnimated(i) ==
    IF i = 0 THEN <<>>
    ELSE NamesOfAnimated(i - 1)
         \o (IF KindOf(files.animations[i]) = "action" THEN <<TrackNames[i]>> ELSE <<>>)

OnlyAnimatedFiles ==
    \A i \in DOMAIN files.animations : KindOf(files.animations[i]) \in {"absent", "action"}

\* C2: when export_glb is called, and every animation file on disk holds a
\* skeleton with a bound action, the target carries exactly one track per file
\* present, named by the mapping, in the mapping's order, each with a single
\* clip that starts at time 0.
C2_OneTrackPerFile ==
    (pc = "export" /\ OnlyAnimatedFiles) =>
        /\ [j \in DOMAIN TargetTracks |-> TargetTracks[j].name] = NamesOfAnimated(Len(TrackNames))
        /\ \A j \in DOMAIN TargetTracks :
              /\ Len(TargetTracks[j].strips) = 1
              /\ TargetTracks[j].strips[1].start = 0
              /\ TargetTracks[j].strips[1].action \in DOMAIN data.actions

C2_Witness ==
    /\ pc = "export"
    /\ OnlyAnimatedFiles
    /\ KindOf(files.animations[1]) = "absent"
    /\ Len(TargetTracks) = 3
    /\ TargetTracks[3].name = "OpenTurn"

Processed(i) == pc \in {"animations", "export", "report", "done"} /\ index > i

\* C3: a present animation file whose skeleton has no bound action gives the
\* target no track and a logged warning, and the run goes on.
C3_WarnsWithoutAction ==
    \A i \in DOMAIN files.animations :
        (Processed(i) /\ KindOf(files.animations[i]) = "noaction") =>
            /\ \A j \in DOMAIN TargetTracks : TargetTracks[j].name # TrackNames[i]
            /\ \E j \in DOMAIN log :
                  log[j] = <<"Warning: No armature found in", ANIMATIONS[i][1]>>
            /\ pc # "exit1"

\* C4: every animation track of every object is muted, in every state between
\* the steps of main() and so when export_glb is called.
C4_TracksMuted ==
    \A o \in DOMAIN data.objects :
        \A j \in DOMAIN data.objects[o].tracks : data.objects[o].tracks[j].mute

C4_Witness ==
    /\ pc = "export"
    /\ Len(TargetTracks) >= 2

\* C5: after extract_animation returns, whatever the file held, the objects of
\* the scene are those from before the call.
C5_ImportsAreTransient ==
    (pc = "animations" /\ index > 1 /\ exists(files.animations[index - 1])) =>
        DOMAIN data.objects = before

\* C7: the action the imported skeleton was bound to, the one duplicated, is
\* no longer in the host's actions once its file is processed.
C7_OriginalsDiscarded ==
    \A a \in originals : a \notin DOMAIN data.actions

\* C6: a second run of main() in the same host session, on the same files,
\* hands export_glb the scene the first run handed it.
C6_SecondRunEqualsFirst ==
    Len(exported) >= 2 => exported[2] = exported[1]

ZeroUserBlocks(kind) == {b \in DOMAIN data[kind] : data[kind][b].users = 0}

\* After clear_scene returns no mesh, armature or action is left with zero
\* users: the one pass over each collection misses none.
OrphansPurged ==
    pc = "import" =>
        ZeroUserBlocks("meshes") \cup ZeroUserBlocks("armatures") \cup ZeroUserBlocks("actions") = {}

\* C8: after clear_scene returns, from any prior host data, the scene holds no
\* object and no mesh, armature or action is left with zero users.
C8_CleanAfterClearScene ==
    pc = "import" =>
        /\ DOMAIN data.objects = {}
        /\ ZeroUserBlocks("meshes") = {}
        /\ ZeroUserBlocks("armatures") = {}
        /\ ZeroUserBlocks("actions") = {}

IsSkeletal(m) == m.type = "ARMATURE"

ChildMeshes ==
    {o \in DOMAIN data.objects :
        data.objects[o].type = "MESH" /\ data.objects[o].parent = armature}

\* C9: after optimize_model returns, every mesh parented to the target was
\* handled, and its modifier stack is its skeletal modifiers, in their order,
\* and nothing else.
C9_OnlySkeletalModifiersLeft ==
    pc \in {"export", "report", "done"} =>
        /\ \A o \in ChildMeshes : \E j \in DOMAIN optimized : optimized[j].mesh = o
        /\ \A j \in DOMAIN optimized :
              data.objects[optimized[j].mesh].modifiers = SelectSeq(optimized[j].stack, IsSkeletal)

C9_Witness ==
    /\ pc = "export"
    /\ \E j \in DOMAIN optimized :
          /\ [k \in DOMAIN optimized[j].stack |-> optimized[j].stack[k].type]
                = <<"SUBSURF", "SUBSURF", "ARMATURE">>
          /\ Len(data.objects[optimized[j].mesh].modifiers) = 1

\* The polygon count of a mesh once every non-skeletal modifier of its stack
\* is applied.
RECURSIVE PolygonsAfter(_, _)
PolygonsAfter(polygons, stack) ==
    IF stack = <<>> THEN polygons
    ELSE PolygonsAfter(IF Head(stack).type = "SUBSURF" THEN polygons * 4 ELSE polygons,
                       Tail(stack))

Handled(o) == {j \in DOMAIN optimized : optimized[j].mesh = o}

\* C10: a mesh is given the DECIMATE modifier (ratio 0.5) if and only if it is
\* parented to the target and its polygon count, once its other modifiers are
\* applied, is above 10,000; the modifier is applied, so the count halves.
C10_DecimateAboveThreshold ==
    pc = "export" =>
        \A o \in DOMAIN data.objects :
            data.objects[o].type = "MESH" =>
                /\ (\E j \in Handled(o) : optimized[j].decimated)
                      <=> /\ data.objects[o].parent = armature
                          /\ \E j \in Handled(o) :
                                PolygonsAfter(optimized[j].polygons, optimized[j].stack) > 10000
                /\ \A j \in Handled(o) :
                      LET after == PolygonsAfter(optimized[j].polygons, optimized[j].stack)
                      IN data.meshes[data.objects[o].data].polygons
                            = IF optimized[j].decimated THEN after \div 2 ELSE after
                /\ data.objects[o].parent = armature => Handled(o) # {}
                /\ data.objects[o].parent # armature => Handled(o) = {}

C10_Witness ==
    /\ pc = "export"
    /\ \E j \in DOMAIN optimized :
          /\ optimized[j].stack # <<>>
          /\ PolygonsAfter(optimized[j].polygons, optimized[j].stack) = 10000
          /\ ~optimized[j].decimated

====
